---- MODULE Spec2Model ----
(***************************************************************************)
(* A model of feast/repo_operations.py: the repo scan (.feastignore,       *)
(* get_ignore_files, get_repo_files), the object discovery of parse_repo,  *)
(* the per-kind keep/delete tagging and apply_total's apply/report cycle.  *)
(*                                                                         *)
(* Paths are sequences of entry names relative to the repo root (the       *)
(* canonical absolute path is the root followed by that sequence).  A      *)
(* text is a sequence of tokens: a blank, a line break, "#", "/" or one    *)
(* path-segment word.  A declared or persisted object is a record          *)
(* [name, types, origin]; types is the set of classes isinstance accepts.  *)
(***************************************************************************)
EXTENDS Integers, Sequences, FiniteSets, TLC

VARIABLES
    tree,               \* the entries below the repo root
    feastignore,        \* [exists, text]: the .feastignore file at the root
    modules,            \* the objects the repo's definition files bind
    registry,           \* kind -> names persisted for the project
    project,            \* store.project, a sequence of characters
    pc,                 \* position in the call being run
    run,                \* which invocation of apply_total this is
    skip_source_validation,
    ignore_paths,       \* read_feastignore's result
    ignore_i,           \* get_ignore_files: next pattern to expand
    ignore_files,       \* get_ignore_files' accumulator
    repo_files,         \* get_repo_files' result
    file_i,             \* parse_repo: next file to import
    repo,               \* the ParsedRepo
    validated,          \* the feature views whose batch source validated
    entities_to_keep, entities_to_delete,
    views_to_keep, views_to_delete,
    odfvs_to_keep, odfvs_to_delete,
    tables_to_keep, tables_to_delete,
    services_to_keep, services_to_delete,
    all_to_apply, all_to_delete,
    output,             \* the lines printed / echoed so far in this run
    calls,              \* the collaborator calls made so far in this run
    exit_code

scanVars == <<ignore_paths, ignore_i, ignore_files, repo_files>>
envVars == <<tree, feastignore, modules, project>>
tagVars == <<entities_to_keep, entities_to_delete, views_to_keep, views_to_delete,
             odfvs_to_keep, odfvs_to_delete, tables_to_keep, tables_to_delete,
             services_to_keep, services_to_delete>>
listVars == <<all_to_apply, all_to_delete>>
vars == <<tree, feastignore, modules, registry, project, pc, run,
          skip_source_validation, ignore_paths, ignore_i, ignore_files,
          repo_files, file_i, repo, validated, entities_to_keep, entities_to_delete,
          views_to_keep, views_to_delete, odfvs_to_keep, odfvs_to_delete,
          tables_to_keep, tables_to_delete, services_to_keep,
          services_to_delete, all_to_apply, all_to_delete, output, calls,
          exit_code>>

(***************************************************************************)
(* Bounds of the model.                                                    *)
(***************************************************************************)
MaxTextLen == 3
MaxDeclared == 2
MaxPersisted == 2
MaxWide == 1
MaxRuns == 2

(***************************************************************************)
(* Sequences and texts.                                                    *)
(***************************************************************************)
SeqsUpTo(S, n) == UNION { [1..k -> S] : k \in 0..n }

Range(s) == { s[i] : i \in 1..Len(s) }

\* the subsets of S with at most n elements
RECURSIVE SubsetsUpTo(_, _)
SubsetsUpTo(S, n) ==
    IF n = 0 THEN {{}}
    ELSE LET smaller == SubsetsUpTo(S, n - 1)
         IN smaller \cup { T \cup {x} : T \in smaller, x \in S }

Orders(S) == { s \in [1..Cardinality(S) -> S] : Range(s) = S }

Whitespace == {" ", "\n"}

RECURSIVE LStrip(_)
LStrip(s) == IF s # <<>> /\ Head(s) \in Whitespace THEN LStrip(Tail(s)) ELSE s

RECURSIVE RStrip(_)
RStrip(s) ==
    IF s # <<>> /\ s[Len(s)] \in Whitespace
    THEN RStrip(SubSeq(s, 1, Len(s) - 1))
    ELSE s

\* str.strip()
Strip(s) == RStrip(LStrip(s))

\* str.find(t) as a 1-based index, 0 when t does not occur
Find(s, t) ==
    IF \E i \in 1..Len(s) : s[i] = t
    THEN CHOOSE i \in 1..Len(s) : s[i] = t /\ \A j \in 1..(i - 1) : s[j] # t
    ELSE 0

\* str.split(sep): the pieces between the separators, empty pieces kept
RECURSIVE Split(_, _)
Split(s, sep) ==
    LET i == Find(s, sep) IN
    IF i = 0 THEN <<s>>
    ELSE <<SubSeq(s, 1, i - 1)>> \o Split(SubSeq(s, i + 1, Len(s)), sep)

RECURSIVE DropEmpty(_)
DropEmpty(ss) ==
    IF ss = <<>> THEN <<>>
    ELSE IF Head(ss) = <<>> THEN DropEmpty(Tail(ss))
    ELSE <<Head(ss)>> \o DropEmpty(Tail(ss))

(***************************************************************************)
(* read_feastignore                                                        *)
(***************************************************************************)
\* one line: the comment cut off, then stripped
IgnoreLine(line) ==
    LET i == Find(line, "#") IN
    Strip(IF i > 0 THEN SubSeq(line, 1, i - 1) ELSE line)

RECURSIVE IgnoreLines(_)
IgnoreLines(lines) ==
    IF lines = <<>> THEN <<>>
    ELSE LET l == IgnoreLine(Head(lines)) IN
         (IF Len(l) > 0 THEN <<l>> ELSE <<>>) \o IgnoreLines(Tail(lines))

read_feastignore(f) ==
    IF ~f.exists THEN <<>>
    ELSE IgnoreLines(Split(Strip(f.text), "\n"))

(***************************************************************************)
(* The file system below the repo root, and pathlib's glob.                *)
(***************************************************************************)
File(p) == [path |-> p, kind |-> "file", target |-> <<>>]
Dir(p) == [path |-> p, kind |-> "dir", target |-> <<>>]
Link(p, t) == [path |-> p, kind |-> "link", target |-> t]

PyNames == {"a.py", "b.py", "c.py", "d.py", "l.py"}

\* code-point order of the entry names
NameOrder == <<"a.py", "b.py", "c.py", "d.py", "g", "l.py", "n.txt", "s">>

NameRank(n) == CHOOSE i \in 1..Len(NameOrder) : NameOrder[i] = n

IsPrefix(p, q) == Len(p) <= Len(q) /\ SubSeq(q, 1, Len(p)) = p

Entries(t, p) == { e \in t : e.path = p }

\* every path that exists below the root: the entries and the directories above them
Paths(t) ==
    { e.path : e \in t } \cup
    UNION { { SubSeq(e.path, 1, k) : k \in 0..(Len(e.path) - 1) } : e \in t }

\* Path.is_dir()
IsDir(t, p) ==
    \/ \E e \in t : IsPrefix(p, e.path) /\ Len(p) < Len(e.path)
    \/ \E e \in Entries(t, p) : e.kind = "dir"
    \/ p = <<>>

\* Path.resolve(): a symbolic link is replaced by what it points to
Resolve(t, p) ==
    IF \E e \in Entries(t, p) : e.kind = "link"
    THEN (CHOOSE e \in Entries(t, p) : e.kind = "link").target
    ELSE p

\* Path.is_file(): a regular file, or a link to one
IsFile(t, p) ==
    \/ \E e \in Entries(t, p) : e.kind = "file"
    \/ /\ \E e \in Entries(t, p) : e.kind = "link"
       /\ \E e \in Entries(t, Resolve(t, p)) : e.kind = "file"

\* Path.exists(): follows links, so a dangling link does not exist
Exists(t, p) == IsDir(t, p) \/ IsFile(t, p)

\* os.scandir(d): the names directly below d, dangling links included
Children(t, d) == { p \in Paths(t) : Len(p) = Len(d) + 1 /\ IsPrefix(d, p) }

\* the directories at and below d
DirsBelow(t, d) == { p \in Paths(t) : IsPrefix(d, p) /\ IsDir(t, p) }

Wildcards == {"*", "*.py", "**"}

\* fnmatch of one entry name against one pattern component; a component of
\* several tokens holds a blank, which no entry name does
SegMatch(seg, name) ==
    /\ Len(seg) = 1
    /\ \/ seg[1] = "*"
       \/ seg[1] = "*.py" /\ name \in PyNames
       \/ seg[1] = name

\* pathlib's selectors: parts is the list of pattern components still to match
RECURSIVE Select(_, _, _)
Select(t, parent, parts) ==
    IF parts = <<>> THEN {parent}
    ELSE
      LET seg == Head(parts)
          rest == Tail(parts)
          dironly == rest # <<>>
      IN
      IF seg = <<"**">>
      THEN UNION { Select(t, d, rest) : d \in DirsBelow(t, parent) }
      ELSE IF Len(seg) = 1 /\ seg[1] \notin Wildcards
      THEN LET p == Append(parent, seg[1]) IN
           IF (IF dironly THEN IsDir(t, p) ELSE Exists(t, p))
           THEN Select(t, p, rest) ELSE {}
      ELSE UNION { Select(t, p, rest) :
                   p \in { c \in Children(t, parent) :
                           /\ SegMatch(seg, c[Len(c)])
                           /\ dironly => IsDir(t, c) } }

PatternParts(pattern) == DropEmpty(Split(pattern, "/"))

\* Path.glob raises for a non-relative pattern and for "**" inside a component
GlobRaises(pattern) ==
    \/ Head(pattern) = "/"
    \/ \E i \in 1..Len(PatternParts(pattern)) :
          LET seg == PatternParts(pattern)[i] IN
          Len(seg) > 1 /\ "**" \in Range(seg)

\* Path.glob(pattern) on directory d
Glob(t, d, pattern) ==
    IF IsDir(t, d) THEN Select(t, d, PatternParts(pattern)) ELSE {}

PyGlob == <<"**", "/", "*.py">>

\* the comparison of two paths: component by component, a proper prefix first
RECURSIVE PathLess(_, _)
PathLess(p, q) ==
    IF q = <<>> THEN FALSE
    ELSE IF p = <<>> THEN TRUE
    ELSE IF Head(p) = Head(q) THEN PathLess(Tail(p), Tail(q))
    ELSE NameRank(Head(p)) < NameRank(Head(q))

\* sorted(paths)
RECURSIVE Sorted(_)
Sorted(S) ==
    IF S = {} THEN <<>>
    ELSE LET m == CHOOSE x \in S : \A y \in S \ {x} : PathLess(x, y)
         IN <<m>> \o Sorted(S \ {m})

(***************************************************************************)
(* get_ignore_files and get_repo_files                                     *)
(***************************************************************************)
IgnoredByFilesOnly(t, matched_path) ==
    IF IsFile(t, matched_path) THEN {Resolve(t, matched_path)} ELSE {}

\* what one matched path adds to ignore_files
IgnoredBy(t, matched_path) ==
    IF IsFile(t, matched_path)
    THEN {Resolve(t, matched_path)}
    ELSE { Resolve(t, sub_path) :
           sub_path \in { s \in Glob(t, matched_path, PyGlob) : IsFile(t, s) } }

\* one iteration of get_ignore_files' loop over ignore_paths
IgnoreFilesOf(t, ignore_path) ==
    UNION { IgnoredBy(t, m) : m \in Glob(t, <<>>, ignore_path) }

\* the set get_repo_files sorts
RepoFileSet(t, ignored) ==
    { Resolve(t, p) : p \in { q \in Glob(t, <<>>, PyGlob) : IsFile(t, q) } }
        \ ignored

get_repo_files(t, ignored) == Sorted(RepoFileSet(t, ignored))

(***************************************************************************)
(* Objects, py_path_to_module and parse_repo's classification.             *)
(***************************************************************************)
Kinds == {"FeatureTable", "FeatureView", "Entity", "FeatureService",
          "OnDemandFeatureView", "RequestFeatureView"}

\* the fields of ParsedRepo
Fields == {"feature_tables", "feature_views", "on_demand_feature_views",
           "request_feature_views", "entities", "feature_services"}

\* the class of the objects each registry listing returns
ClassOf(field) ==
    CASE field = "feature_tables" -> "FeatureTable"
      [] field = "feature_views" -> "FeatureView"
      [] field = "on_demand_feature_views" -> "OnDemandFeatureView"
      [] field = "request_feature_views" -> "RequestFeatureView"
      [] field = "entities" -> "Entity"
      [] field = "feature_services" -> "FeatureService"

DUMMY_ENTITY_NAME == "__dummy"

Obj(n, ts, o) == [name |-> n, types |-> ts, origin |-> o]

\* an object a registry listing returns
Persisted(field, n) == Obj(n, {ClassOf(field)}, "registry")

EmptyRepo == [f \in Fields |-> {}]

\* the name a file's last component has without its ".py"
Stem(n) ==
    CASE n = "a.py" -> "a" [] n = "b.py" -> "b" [] n = "c.py" -> "c"
      [] n = "d.py" -> "d" [] n = "l.py" -> "l" [] OTHER -> n

\* py_path_to_module: the components of the dotted module name (no entry
\* name of the model ends in ".", so replace("./", "") changes nothing)
py_path_to_module(path) ==
    [i \in 1..Len(path) |-> IF i = Len(path) THEN Stem(path[i]) ELSE path[i]]

\* the fields of ParsedRepo the value of one module attribute is added to:
\* parse_repo's "if FeatureTable", then "if FeatureView / elif ..." chain
ClassifyWrongChain(types) ==
    (IF "FeatureTable" \in types THEN {"feature_tables"} ELSE {}) \cup
    (IF "FeatureView" \in types THEN {"feature_views"} ELSE {}) \cup
    (IF "Entity" \in types THEN {"entities"}
     ELSE IF "FeatureService" \in types THEN {"feature_services"}
     ELSE IF "OnDemandFeatureView" \in types THEN {"on_demand_feature_views"}
     ELSE IF "RequestFeatureView" \in types THEN {"request_feature_views"}
     ELSE {})

Classify(types) ==
    (IF "FeatureTable" \in types THEN {"feature_tables"} ELSE {}) \cup
    (IF "FeatureView" \in types THEN {"feature_views"}
     ELSE IF "Entity" \in types THEN {"entities"}
     ELSE IF "FeatureService" \in types THEN {"feature_services"}
     ELSE IF "OnDemandFeatureView" \in types THEN {"on_demand_feature_views"}
     ELSE IF "RequestFeatureView" \in types THEN {"request_feature_views"}
     ELSE {})

\* parse_repo's inner loop over dir(module): every attribute value is added
\* to the sets it classifies into
AddModule(res, values) ==
    [f \in Fields |-> res[f] \cup { v \in values : f \in Classify(v.types) }]

Names(objs) == { o.name : o \in objs }

(***************************************************************************)
(* is_valid_name                                                           *)
(***************************************************************************)
\* the characters \W does not match: letters, digits and the underscore
WordChars == {"p", "1", "_"}

is_valid_name_no_prefix_check(name) ==
    ~ \E i \in 1..Len(name) : name[i] \notin WordChars

is_valid_name(name) ==
    /\ ~ (Len(name) > 0 /\ name[1] = "_")
    /\ ~ \E i \in 1..Len(name) : name[i] \notin WordChars

(***************************************************************************)
(* The registry listings and the keep/delete tagging.                      *)
(***************************************************************************)
\* registry.list_<field>(project)
List(reg, field) == { Persisted(field, n) : n \in reg[field] }

tag_entities_deleting_dummy(reg, rp) ==
    [keep |-> rp.entities,
     delete |-> { e \in List(reg, "entities") : e.name \notin Names(rp.entities) }]

tag_registry_entities_for_keep_delete(reg, rp) ==
    [keep |-> rp.entities,
     delete |-> { e \in List(reg, "entities") :
                    /\ e.name \notin Names(rp.entities)
                    /\ e.name # DUMMY_ENTITY_NAME }]

\* views_to_keep is repo.feature_views itself (cast returns its argument), so
\* adding the request feature views to it changes repo.feature_views, which
\* the name set is then read from
tag_views_on_a_copy(reg, rp) ==
    [keep |-> rp.feature_views \cup rp.request_feature_views,
     delete |-> { v \in List(reg, "feature_views") :
                    v.name \notin Names(rp.feature_views) },
     repo |-> rp]

tag_registry_views_for_keep_delete(reg, rp) ==
    LET kept == rp.feature_views \cup rp.request_feature_views
        after == [rp EXCEPT !.feature_views = kept]
    IN [keep |-> kept,
        delete |-> { v \in List(reg, "feature_views") :
                       v.name \notin Names(after.feature_views) },
        repo |-> after]

tag_registry_on_demand_feature_views_for_keep_delete(reg, rp) ==
    [keep |-> rp.on_demand_feature_views,
     delete |-> { v \in List(reg, "on_demand_feature_views") :
                    v.name \notin Names(rp.on_demand_feature_views) }]

tag_tables_against_view_names(reg, rp) ==
    [keep |-> rp.feature_tables,
     delete |-> { v \in List(reg, "feature_tables") :
                    v.name \notin Names(rp.feature_views) }]

tag_registry_tables_for_keep_delete(reg, rp) ==
    [keep |-> rp.feature_tables,
     delete |-> { v \in List(reg, "feature_tables") :
                    v.name \notin Names(rp.feature_tables) }]

tag_registry_services_for_keep_delete(reg, rp) ==
    [keep |-> rp.feature_services,
     delete |-> { v \in List(reg, "feature_services") :
                    v.name \notin Names(rp.feature_services) }]

(***************************************************************************)
(* store.apply(objects, objects_to_delete, partial=False): every object    *)
(* to apply is registered under the listing of each class it is an         *)
(* instance of and every object to delete is removed from its listing; the *)
(* store may register the dummy entity for feature views without entities. *)
(***************************************************************************)
store_apply(reg, to_apply, to_delete, dummy) ==
    [f \in Fields |->
        ((reg[f] \cup { o.name : o \in { a \in Range(to_apply) : ClassOf(f) \in a.types } })
            \ { o.name : o \in { d \in Range(to_delete) : ClassOf(f) \in d.types } })
        \cup (IF dummy /\ f = "entities" THEN {DUMMY_ENTITY_NAME} ELSE {})]

(***************************************************************************)
(* The inputs the model draws from.                                        *)
(***************************************************************************)
ModulePaths == {<<"a.py">>, <<"g", "b.py">>, <<"g", "s", "c.py">>}

\* the repo of the apply_total runs: three definition files, the third
\* ignored by the .feastignore line "g/s"
MainTree == {File(<<"a.py">>), File(<<"g", "b.py">>), File(<<"g", "s", "c.py">>)}

MainIgnore == [exists |-> TRUE, text |-> <<"g", "/", "s">>]

NoIgnore == [exists |-> FALSE, text |-> <<>>]

IgnoredObject == Obj("z", {"Entity"}, "repo")

ObjectNames == {"x", "y"}

\* the classes of which the repo may declare, and the listings in which the
\* registry may hold, a second object, named y
TwiceDeclared == {"Entity", "FeatureView", "FeatureTable", "FeatureService"}

TwiceListed == {"entities", "feature_views", "feature_tables"}

\* instances of the six classes, one object that is both a FeatureTable and
\* a FeatureView, and a declared entity with the dummy entity's name
DeclaredUniverse ==
    { Obj("x", {k}, "repo") : k \in Kinds }
        \cup { Obj("y", {k}, "repo") : k \in TwiceDeclared }
        \cup {Obj("x", {"FeatureTable", "FeatureView"}, "repo"),
              Obj(DUMMY_ENTITY_NAME, {"Entity"}, "repo")}

\* values of any combination of the six classes, the empty one included
WideUniverse == { Obj("x", ts, "repo") : ts \in SUBSET Kinds }

\* a.py binds the objects named x, g/b.py the others, g/s/c.py one entity
ModulesOf(declared) ==
    [p \in ModulePaths |->
        IF p = <<"a.py">> THEN { v \in declared : v.name = "x" }
        ELSE IF p = <<"g", "b.py">> THEN { v \in declared : v.name # "x" }
        ELSE {IgnoredObject}]

ListedFields == Fields \ {"request_feature_views"}

PersistUniverse ==
    (ListedFields \X {"x"}) \cup (TwiceListed \X {"y"})
        \cup {<<"entities", DUMMY_ENTITY_NAME>>}

RegistryOf(pairs) == [f \in Fields |-> { q[2] : q \in { r \in pairs : r[1] = f } }]

ProjectNames == {<<"p", "_", "1">>, <<"_", "p">>, <<"p", "-">>, <<"-">>}

\* the trees and .feastignore texts of the scan
EntryUniverse ==
    {File(<<"a.py">>), File(<<"n.txt">>), File(<<"g", "b.py">>),
     File(<<"g", "s", "c.py">>), Link(<<"g", "l.py">>, <<"a.py">>),
     Dir(<<"d.py">>)}

Words == {"g", "a.py", "*", "**", "*.py"}

TextTokens == Words \cup {" ", "#", "\n", "/"}

\* two words side by side would be another word, which is no token
IgnoreTexts ==
    { s \in SeqsUpTo(TextTokens, MaxTextLen) :
        \A i \in 1..(Len(s) - 1) : ~ (s[i] \in Words /\ s[i + 1] \in Words) }

Call(op, arg, ok) == [op |-> op, arg |-> arg, ok |-> ok]

Line(text, n) == [text |-> text, name |-> n]

(***************************************************************************)
(* Initial states.                                                         *)
(***************************************************************************)
FreshRun ==
    /\ skip_source_validation = FALSE
    /\ ignore_paths = <<>> /\ ignore_i = 1 /\ ignore_files = {}
    /\ repo_files = <<>> /\ file_i = 1
    /\ repo = EmptyRepo /\ validated = {}
    /\ entities_to_keep = {} /\ entities_to_delete = {}
    /\ views_to_keep = {} /\ views_to_delete = {}
    /\ odfvs_to_keep = {} /\ odfvs_to_delete = {}
    /\ tables_to_keep = {} /\ tables_to_delete = {}
    /\ services_to_keep = {} /\ services_to_delete = {}
    /\ all_to_apply = <<>> /\ all_to_delete = <<>>
    /\ output = <<>> /\ calls = <<>> /\ exit_code = 0

\* apply_total is about to run on a feature repo and a registry
Init ==
    /\ tree = MainTree
    /\ feastignore = MainIgnore
    /\ \E declared \in SubsetsUpTo(DeclaredUniverse, MaxDeclared) :
          modules = ModulesOf(declared)
    /\ \E pairs \in SubsetsUpTo(PersistUniverse, MaxPersisted) :
          registry = RegistryOf(pairs)
    /\ project \in ProjectNames
    /\ pc = "apply_total" /\ run = 1
    /\ FreshRun

\* parse_repo is about to run on a repo whose a.py binds any values
InitParse ==
    /\ tree = MainTree
    /\ feastignore \in {MainIgnore, NoIgnore}
    /\ \E values \in SubsetsUpTo(WideUniverse, MaxWide) :
          modules = ModulesOf(values)
    /\ registry = RegistryOf({})
    /\ project = <<"p", "_", "1">>
    /\ pc = "read_feastignore" /\ run = 1
    /\ FreshRun

\* get_repo_files is about to run on any tree with any .feastignore
InitScan ==
    /\ tree \in SUBSET EntryUniverse
    /\ \/ feastignore = NoIgnore
       \/ \E text \in IgnoreTexts : feastignore = [exists |-> TRUE, text |-> text]
    /\ modules = [p \in ModulePaths |-> {}]
    /\ registry = RegistryOf({})
    /\ project = <<"p", "_", "1">>
    /\ pc = "read_feastignore" /\ run = 1
    /\ FreshRun

(***************************************************************************)
(* get_repo_files, step by step.                                           *)
(***************************************************************************)
\* where parse_repo's loop over the files goes next
ImportOrReturn(files, i) == IF i > Len(files) THEN "validate" ELSE "import_module"

ReadFeastignore ==
    /\ pc = "read_feastignore"
    /\ ignore_paths' = read_feastignore(feastignore)
    /\ ignore_i' = 1
    /\ ignore_files' = {}
    /\ pc' = "get_ignore_files"
    /\ UNCHANGED <<envVars, registry, run, skip_source_validation, repo_files,
                   file_i, repo, validated, tagVars, listVars, output, calls,
                   exit_code>>

\* one iteration of the loop over ignore_paths
GetIgnoreFiles ==
    /\ pc = "get_ignore_files"
    /\ ignore_i <= Len(ignore_paths)
    /\ IF GlobRaises(ignore_paths[ignore_i])
       THEN /\ pc' = "raised"
            /\ UNCHANGED <<ignore_i, ignore_files>>
       ELSE /\ ignore_files' =
                  ignore_files \cup IgnoreFilesOf(tree, ignore_paths[ignore_i])
            /\ ignore_i' = ignore_i + 1
            /\ pc' = pc
    /\ UNCHANGED <<envVars, registry, run, skip_source_validation, ignore_paths,
                   repo_files, file_i, repo, validated, tagVars, listVars,
                   output, calls, exit_code>>

\* the loop is over: the repo files are listed, filtered and sorted
GetRepoFiles ==
    /\ pc = "get_ignore_files"
    /\ ignore_i > Len(ignore_paths)
    /\ repo_files' = get_repo_files(tree, ignore_files)
    /\ file_i' = 1
    /\ pc' = ImportOrReturn(repo_files', 1)
    /\ UNCHANGED <<envVars, registry, run, skip_source_validation, ignore_paths,
                   ignore_i, ignore_files, repo, validated, tagVars, listVars,
                   output, calls, exit_code>>

(***************************************************************************)
(* parse_repo's loop over the repo files.                                  *)
(***************************************************************************)
ImportModule ==
    /\ pc = "import_module"
    /\ LET repo_file == repo_files[file_i]
           module_path == py_path_to_module(repo_file)
       IN \/ \* the module executes; its attribute values are classified
             /\ repo' = AddModule(repo, modules[repo_file])
             /\ calls' = Append(calls, Call("import_module", module_path, TRUE))
             /\ file_i' = file_i + 1
             /\ pc' = ImportOrReturn(repo_files, file_i + 1)
          \/ \* the module raises while it executes
             /\ calls' = Append(calls, Call("import_module", module_path, FALSE))
             /\ pc' = "raised"
             /\ UNCHANGED <<repo, file_i>>
    /\ UNCHANGED <<envVars, registry, run, skip_source_validation, scanVars,
                   validated, tagVars, listVars, output, exit_code>>

(***************************************************************************)
(* apply_total                                                             *)
(***************************************************************************)
\* chdir, the FeatureStore, the project name check and _initialize_registry
ApplyTotalStart ==
    /\ pc = "apply_total"
    /\ \E skip \in BOOLEAN : skip_source_validation' = skip
    /\ IF ~ is_valid_name(project)
       THEN /\ output' = Append(output, Line("is not valid", "project"))
            /\ exit_code' = 1
            /\ pc' = "exit"
            /\ calls' = calls
       ELSE /\ calls' = Append(calls, Call("_initialize_registry", <<>>, TRUE))
            /\ pc' = "read_feastignore"
            /\ UNCHANGED <<output, exit_code>>
    /\ UNCHANGED <<envVars, registry, run, scanVars, file_i, repo, validated,
                   tagVars, listVars>>

ValidateSourcesSwallowing ==
    /\ pc = "validate"
    /\ IF skip_source_validation
       THEN /\ pc' = "tag_entities"
            /\ UNCHANGED <<validated, calls>>
       ELSE \/ /\ validated' = repo.feature_views
               /\ calls' = Append(calls, Call("validate", <<>>, TRUE))
               /\ pc' = "tag_entities"
            \/ \E bad \in repo.feature_views :
                  \E before \in SUBSET (repo.feature_views \ {bad}) :
                     /\ validated' = before
                     /\ calls' = Append(calls, Call("validate", <<bad.name>>, FALSE))
                     /\ pc' = "tag_entities"
    /\ UNCHANGED <<envVars, registry, run, skip_source_validation, scanVars,
                   file_i, repo, tagVars, listVars, output, exit_code>>

\* data_source.validate(store.config) for the batch source of every feature view
ValidateSources ==
    /\ pc = "validate"
    /\ IF skip_source_validation
       THEN /\ pc' = "tag_entities"
            /\ UNCHANGED <<validated, calls>>
       ELSE \/ /\ validated' = repo.feature_views
               /\ calls' = Append(calls, Call("validate", <<>>, TRUE))
               /\ pc' = "tag_entities"
            \/ \E bad \in repo.feature_views :
                  \E before \in SUBSET (repo.feature_views \ {bad}) :
                     /\ validated' = before
                     /\ calls' = Append(calls, Call("validate", <<bad.name>>, FALSE))
                     /\ pc' = "raised"
    /\ UNCHANGED <<envVars, registry, run, skip_source_validation, scanVars,
                   file_i, repo, tagVars, listVars, output, exit_code>>

\* a registry listing raises
ListRaises(op) ==
    /\ calls' = Append(calls, Call(op, <<>>, FALSE))
    /\ pc' = "raised"

TagEntities ==
    /\ pc = "tag_entities"
    /\ \/ LET r == tag_registry_entities_for_keep_delete(registry, repo) IN
          /\ entities_to_keep' = r.keep
          /\ entities_to_delete' = r.delete
          /\ calls' = Append(calls, Call("list_entities", <<>>, TRUE))
          /\ pc' = "tag_views"
       \/ /\ ListRaises("list_entities")
          /\ UNCHANGED <<entities_to_keep, entities_to_delete>>
    /\ UNCHANGED <<envVars, registry, run, skip_source_validation, scanVars,
                   file_i, repo, validated, views_to_keep, views_to_delete,
                   odfvs_to_keep, odfvs_to_delete, tables_to_keep,
                   tables_to_delete, services_to_keep, services_to_delete,
                   listVars, output, exit_code>>

TagViews ==
    /\ pc = "tag_views"
    /\ \/ LET r == tag_registry_views_for_keep_delete(registry, repo) IN
          /\ views_to_keep' = r.keep
          /\ views_to_delete' = r.delete
          /\ repo' = r.repo
          /\ calls' = Append(calls, Call("list_feature_views", <<>>, TRUE))
          /\ pc' = "tag_odfvs"
       \/ \* the request feature views are added before the listing is read
          /\ ListRaises("list_feature_views")
          /\ repo' = [repo EXCEPT !.feature_views =
                          repo.feature_views \cup repo.request_feature_views]
          /\ UNCHANGED <<views_to_keep, views_to_delete>>
    /\ UNCHANGED <<envVars, registry, run, skip_source_validation, scanVars,
                   file_i, validated, entities_to_keep, entities_to_delete,
                   odfvs_to_keep, odfvs_to_delete, tables_to_keep,
                   tables_to_delete, services_to_keep, services_to_delete,
                   listVars, output, exit_code>>

TagOnDemandFeatureViews ==
    /\ pc = "tag_odfvs"
    /\ \/ LET r == tag_registry_on_demand_feature_views_for_keep_delete(registry, repo) IN
          /\ odfvs_to_keep' = r.keep
          /\ odfvs_to_delete' = r.delete
          /\ calls' = Append(calls, Call("list_on_demand_feature_views", <<>>, TRUE))
          /\ pc' = "tag_tables"
       \/ /\ ListRaises("list_on_demand_feature_views")
          /\ UNCHANGED <<odfvs_to_keep, odfvs_to_delete>>
    /\ UNCHANGED <<envVars, registry, run, skip_source_validation, scanVars,
                   file_i, repo, validated, entities_to_keep, entities_to_delete,
                   views_to_keep, views_to_delete, tables_to_keep,
                   tables_to_delete, services_to_keep, services_to_delete,
                   listVars, output, exit_code>>

TagTables ==
    /\ pc = "tag_tables"
    /\ \/ LET r == tag_registry_tables_for_keep_delete(registry, repo) IN
          /\ tables_to_keep' = r.keep
          /\ tables_to_delete' = r.delete
          /\ calls' = Append(calls, Call("list_feature_tables", <<>>, TRUE))
          /\ pc' = "tag_services"
       \/ /\ ListRaises("list_feature_tables")
          /\ UNCHANGED <<tables_to_keep, tables_to_delete>>
    /\ UNCHANGED <<envVars, registry, run, skip_source_validation, scanVars,
                   file_i, repo, validated, entities_to_keep, entities_to_delete,
                   views_to_keep, views_to_delete, odfvs_to_keep,
                   odfvs_to_delete, services_to_keep, services_to_delete,
                   listVars, output, exit_code>>

TagServices ==
    /\ pc = "tag_services"
    /\ \/ LET r == tag_registry_services_for_keep_delete(registry, repo) IN
          /\ services_to_keep' = r.keep
          /\ services_to_delete' = r.delete
          /\ calls' = Append(calls, Call("list_feature_services", <<>>, TRUE))
          /\ pc' = "store_apply"
       \/ /\ ListRaises("list_feature_services")
          /\ UNCHANGED <<services_to_keep, services_to_delete>>
    /\ UNCHANGED <<envVars, registry, run, skip_source_validation, scanVars,
                   file_i, repo, validated, entities_to_keep, entities_to_delete,
                   views_to_keep, views_to_delete, odfvs_to_keep,
                   odfvs_to_delete, tables_to_keep, tables_to_delete,
                   listVars, output, exit_code>>

\* the store adds the dummy entity only for a feature view (one without entities)
MayAddDummy(to_apply) ==
    IF \E a \in Range(to_apply) : "FeatureView" \in a.types
    THEN BOOLEAN ELSE {FALSE}

ExtendedTablesFirst(entities, views, services, odfvs, tables) ==
    { t \o e \o v \o s \o o :
        e \in Orders(entities), v \in Orders(views), s \in Orders(services),
        o \in Orders(odfvs), t \in Orders(tables) }

\* list.extend(set) five times: each set in some iteration order, the kinds
\* in the order entities, views, services, on demand views, tables
Extended(entities, views, services, odfvs, tables) ==
    { e \o v \o s \o o \o t :
        e \in Orders(entities), v \in Orders(views), s \in Orders(services),
        o \in Orders(odfvs), t \in Orders(tables) }

\* all_to_apply and all_to_delete are built and handed to store.apply
StoreApply ==
    /\ pc = "store_apply"
    /\ all_to_apply' \in Extended(entities_to_keep, views_to_keep,
                                  services_to_keep, odfvs_to_keep, tables_to_keep)
    /\ all_to_delete' \in Extended(entities_to_delete, views_to_delete,
                                   services_to_delete, odfvs_to_delete,
                                   tables_to_delete)
    /\ \/ \E dummy \in MayAddDummy(all_to_apply') :
             /\ registry' = store_apply(registry, all_to_apply', all_to_delete', dummy)
             /\ calls' = Append(calls, Call("apply", <<"partial=False">>, TRUE))
             /\ pc' = "report"
       \/ /\ calls' = Append(calls, Call("apply", <<"partial=False">>, FALSE))
          /\ pc' = "raised"
          /\ UNCHANGED registry
    /\ UNCHANGED <<envVars, run, skip_source_validation, scanVars, file_i, repo,
                   validated, tagVars, output, exit_code>>

\* the part of a list one extend() added: n items after the first `from`
Slice(list, from, n) == SubSeq(list, from + 1, from + n)

Lines(text, objs) == [i \in 1..Len(objs) |-> Line(text, objs[i].name)]

IsFeatureView(o) == "FeatureView" \in o.types

InfraToDeployUnfiltered(tables, views) == tables \o views

\* repo.feature_tables, then views_to_keep_in_infra: the views to keep that
\* are FeatureViews
InfraToDeploy(tables, views) == tables \o SelectSeq(views, IsFeatureView)

\* the echo loops after store.apply; each set is iterated in the order in
\* which extend() iterated it
ReportLines ==
    LET nEk == Cardinality(entities_to_keep)
        nVk == Cardinality(views_to_keep)
        nSk == Cardinality(services_to_keep)
        nOk == Cardinality(odfvs_to_keep)
        nTk == Cardinality(tables_to_keep)
        nEd == Cardinality(entities_to_delete)
        nVd == Cardinality(views_to_delete)
        nSd == Cardinality(services_to_delete)
        nOd == Cardinality(odfvs_to_delete)
        nTd == Cardinality(tables_to_delete)
        Ek == Slice(all_to_apply, 0, nEk)
        Vk == Slice(all_to_apply, nEk, nVk)
        Sk == Slice(all_to_apply, nEk + nVk, nSk)
        Ok == Slice(all_to_apply, nEk + nVk + nSk, nOk)
        Tk == Slice(all_to_apply, nEk + nVk + nSk + nOk, nTk)
        Ed == Slice(all_to_delete, 0, nEd)
        Vd == Slice(all_to_delete, nEd, nVd)
        Sd == Slice(all_to_delete, nEd + nVd, nSd)
        Od == Slice(all_to_delete, nEd + nVd + nSd, nOd)
        Td == Slice(all_to_delete, nEd + nVd + nSd + nOd, nTd)
        views_to_delete_from_infra == SelectSeq(Vd, IsFeatureView)
    IN Lines("Deleted entity", Ed)
       \o Lines("Deleted feature view", Vd)
       \o Lines("Deleted on demand feature view", Od)
       \o Lines("Deleted feature table", Td)
       \o Lines("Deleted feature service", Sd)
       \o Lines("Registered entity", Ek)
       \o Lines("Registered feature view", Vk)
       \o Lines("Registered on demand feature view", Ok)
       \o Lines("Registered feature service", Sk)
       \o Lines("Registered feature table", Tk)
       \o Lines("Deploying infrastructure for", InfraToDeploy(Tk, Vk))
       \o Lines("Removing infrastructure for", views_to_delete_from_infra \o Td)

Report ==
    /\ pc = "report"
    /\ output' = output \o ReportLines
    /\ pc' = "done"
    /\ UNCHANGED <<envVars, registry, run, skip_source_validation, scanVars,
                   file_i, repo, validated, tagVars, listVars, calls, exit_code>>

\* apply_total is invoked again, in a new process, on the same repo and on
\* the registry as the run before left it
NextRun ==
    /\ pc = "done"
    /\ run < MaxRuns
    /\ run' = run + 1
    /\ pc' = "apply_total"
    /\ skip_source_validation' = FALSE
    /\ ignore_paths' = <<>> /\ ignore_i' = 1 /\ ignore_files' = {}
    /\ repo_files' = <<>> /\ file_i' = 1
    /\ repo' = EmptyRepo /\ validated' = {}
    /\ entities_to_keep' = {} /\ entities_to_delete' = {}
    /\ views_to_keep' = {} /\ views_to_delete' = {}
    /\ odfvs_to_keep' = {} /\ odfvs_to_delete' = {}
    /\ tables_to_keep' = {} /\ tables_to_delete' = {}
    /\ services_to_keep' = {} /\ services_to_delete' = {}
    /\ all_to_apply' = <<>> /\ all_to_delete' = <<>>
    /\ output' = <<>> /\ calls' = <<>> /\ exit_code' = 0
    /\ UNCHANGED <<envVars, registry>>

NextScan == ReadFeastignore \/ GetIgnoreFiles \/ GetRepoFiles

SpecScan == InitScan /\ [][NextScan]_vars

NextParse == NextScan \/ ImportModule

SpecParse == InitParse /\ [][NextParse]_vars

Next ==
    \/ ApplyTotalStart
    \/ ReadFeastignore \/ GetIgnoreFiles \/ GetRepoFiles
    \/ ImportModule
    \/ ValidateSources
    \/ TagEntities \/ TagViews \/ TagOnDemandFeatureViews
    \/ TagTables \/ TagServices
    \/ StoreApply
    \/ Report
    \/ NextRun

Spec == Init /\ [][Next]_vars

(***************************************************************************)
(* What the properties speak of.                                           *)
(***************************************************************************)
\* the values bound by the modules imported so far
ImportedValues == UNION { modules[repo_files[i]] : i \in 1..(file_i - 1) }

\* the declared objects that are instances of class c
DeclaredOf(c) == { v \in ImportedValues : c \in v.types }

DeclaredViews == DeclaredOf("FeatureView") \cup DeclaredOf("RequestFeatureView")

\* the five tagging functions have returned and store.apply has not yet run
Tagged == pc = "store_apply"

\* the persisted objects of a listing with no declared object of that name
Undeclared(field, declared) ==
    { p \in List(registry, field) : \A d \in declared : d.name # p.name }

InvalidProjectName ==
    \/ project[1] = "_"
    \/ \E i \in 1..Len(project) : project[i] = "-"

ApplyCalls == { i \in 1..Len(calls) : calls[i].op = "apply" }

CalledBefore(i, op) == \E j \in 1..(i - 1) : calls[j].op = op /\ calls[j].ok

ListOps == {"list_entities", "list_feature_views", "list_on_demand_feature_views",
            "list_feature_tables", "list_feature_services"}

InfraTexts == {"Deploying infrastructure for", "Removing infrastructure for"}

\* the lines that report an outcome: all but the project name message
OutcomeLines == { i \in 1..Len(output) : output[i].text # "is not valid" }

\* how many lines of the output say `text` of the name n
Count(text, n) ==
    Cardinality({ i \in 1..Len(output) : output[i].text = text /\ output[i].name = n })

Named(objs, n) == Cardinality({ o \in objs : o.name = n })

AllNames == ObjectNames \cup {DUMMY_ENTITY_NAME, "z"}

\* list is the concatenation of one enumeration of each of the five sets
Concatenates(list, s1, s2, s3, s4, s5) ==
    LET n1 == Cardinality(s1)
        n2 == Cardinality(s2)
        n3 == Cardinality(s3)
        n4 == Cardinality(s4)
        n5 == Cardinality(s5)
    IN /\ Len(list) = n1 + n2 + n3 + n4 + n5
       /\ Range(Slice(list, 0, n1)) = s1
       /\ Range(Slice(list, n1, n2)) = s2
       /\ Range(Slice(list, n1 + n2, n3)) = s3
       /\ Range(Slice(list, n1 + n2 + n3, n4)) = s4
       /\ Range(Slice(list, n1 + n2 + n3 + n4, n5)) = s5

(***************************************************************************)
(* C1.  For every reconciled kind, the objects tagged for deletion are     *)
(* exactly the persisted objects of that kind's listing whose name no      *)
(* declared object of that same kind has (the dummy entity left out), so   *)
(* the delete-set of a kind does not depend on the declared objects of     *)
(* another kind.                                                           *)
(***************************************************************************)
C1_DeleteSetOfOwnKind ==
    Tagged =>
      /\ entities_to_delete =
            { p \in Undeclared("entities", DeclaredOf("Entity")) :
                p.name # DUMMY_ENTITY_NAME }
      /\ views_to_delete = Undeclared("feature_views", DeclaredOf("FeatureView"))
      /\ odfvs_to_delete =
            Undeclared("on_demand_feature_views", DeclaredOf("OnDemandFeatureView"))
      /\ tables_to_delete = Undeclared("feature_tables", DeclaredOf("FeatureTable"))
      /\ services_to_delete =
            Undeclared("feature_services", DeclaredOf("FeatureService"))

(***************************************************************************)
(* C2.  No object in the delete-set of a kind has the name of an object in *)
(* the keep-set of that kind (for feature views the keep-set holds the     *)
(* declared request feature views too), in the sets the tagging functions  *)
(* return and in the two lists handed to store.apply.                      *)
(***************************************************************************)
\* a persisted object and a declared one are of the same reconciled kind
SameKind(d, a) ==
    \/ d.types \cap a.types # {}
    \/ "FeatureView" \in d.types /\ "RequestFeatureView" \in a.types

C2_DeclaredNameNeverDeleted ==
    /\ Names(entities_to_delete) \cap Names(entities_to_keep) = {}
    /\ Names(views_to_delete) \cap Names(views_to_keep) = {}
    /\ Names(odfvs_to_delete) \cap Names(odfvs_to_keep) = {}
    /\ Names(tables_to_delete) \cap Names(tables_to_keep) = {}
    /\ Names(services_to_delete) \cap Names(services_to_keep) = {}
    /\ Tagged =>
         /\ Names(views_to_delete) \cap Names(DeclaredViews) = {}
         /\ views_to_keep = DeclaredViews
    /\ \A i \in 1..Len(all_to_delete) : \A j \in 1..Len(all_to_apply) :
          SameKind(all_to_delete[i], all_to_apply[j])
             => all_to_delete[i].name # all_to_apply[j].name

\* a declared request feature view shares its name with a persisted feature
\* view, which is kept, while another persisted feature view is deleted
C2_Witness ==
    /\ pc = "report"
    /\ \E a \in Range(all_to_apply) :
          /\ "RequestFeatureView" \in a.types
          /\ a.name \in registry["feature_views"]
          /\ a.name \notin Names(DeclaredOf("FeatureView"))
    /\ \E d \in Range(all_to_delete) : "FeatureView" \in d.types

(***************************************************************************)
(* C3.  The persisted entity named DUMMY_ENTITY_NAME is never in           *)
(* entities_to_delete nor in all_to_delete, declared or not.               *)
(***************************************************************************)
DummyEntity == Persisted("entities", DUMMY_ENTITY_NAME)

C3_DummyEntityNeverDeleted ==
    /\ DummyEntity \notin entities_to_delete
    /\ DummyEntity \notin Range(all_to_delete)
    /\ \A i \in 1..Len(output) :
          output[i].text = "Deleted entity" => output[i].name # DUMMY_ENTITY_NAME

\* the registry lists the dummy entity and an undeclared entity, no entity
\* named like the dummy is declared, and only the undeclared one is deleted
C3_Witness ==
    /\ run = 1
    /\ pc = "done"
    /\ DUMMY_ENTITY_NAME \in registry["entities"]
    /\ DUMMY_ENTITY_NAME \notin Names(DeclaredOf("Entity"))
    /\ Names(entities_to_keep) = {"x"}
    /\ Names(entities_to_delete) = {"y"}
    /\ Names(Range(all_to_delete)) = {"y"}

(***************************************************************************)
(* C4.  Idempotence.  As stated: in each of two runs in a row, every       *)
(* delete-set is empty and every keep-set is the full declared set.        *)
(***************************************************************************)
AfterTagging == pc \in {"store_apply", "report", "done"}

DeleteSetsEmpty ==
    /\ entities_to_delete = {} /\ views_to_delete = {} /\ odfvs_to_delete = {}
    /\ tables_to_delete = {} /\ services_to_delete = {}

KeepSetsAreDeclared ==
    /\ entities_to_keep = DeclaredOf("Entity")
    /\ views_to_keep = DeclaredViews
    /\ odfvs_to_keep = DeclaredOf("OnDemandFeatureView")
    /\ tables_to_keep = DeclaredOf("FeatureTable")
    /\ services_to_keep = DeclaredOf("FeatureService")

C4_BothRunsDeleteNothing ==
    AfterTagging => DeleteSetsEmpty /\ KeepSetsAreDeclared

(***************************************************************************)
(* C4, amended.  A run that follows a completed run on the same repo, the  *)
(* registry changed only by that run's store.apply, tags nothing for       *)
(* deletion, passes no object to delete and reports no deletion; and in    *)
(* every run each keep-set is the full declared set.                       *)
(***************************************************************************)
C4_RepeatedRunDeletesNothing ==
    /\ run >= 2 =>
         /\ DeleteSetsEmpty
         /\ all_to_delete = <<>>
         /\ \A i \in 1..Len(output) :
               output[i].text \in
                  {"Registered entity", "Registered feature view",
                   "Registered on demand feature view",
                   "Registered feature service", "Registered feature table",
                   "Deploying infrastructure for", "is not valid"}
    /\ AfterTagging => KeepSetsAreDeclared

\* the second run has completed on a registry that lists the dummy entity
\* beside the declared objects
C4_Witness ==
    /\ run = 2
    /\ pc = "done"
    /\ DeclaredOf("FeatureView") # {}
    /\ DeclaredOf("FeatureTable") # {}
    /\ DUMMY_ENTITY_NAME \in registry["entities"]
    /\ Names(DeclaredOf("FeatureTable")) = registry["feature_tables"]

(***************************************************************************)
(* C5.  With a project name that contains a character other than letters,  *)
(* digits and the underscore, or that starts with an underscore, the run   *)
(* exits with code 1 and makes no registry call, imports no module and     *)
(* validates no data source.                                               *)
(***************************************************************************)
C5_InvalidProjectNameRejected ==
    InvalidProjectName =>
      /\ pc \in {"apply_total", "exit"}
      /\ pc = "exit" => exit_code = 1
      /\ calls = <<>>
      /\ repo_files = <<>> /\ repo = EmptyRepo /\ validated = {}
      /\ all_to_apply = <<>> /\ all_to_delete = <<>>

\* the run on the project "_p" has exited
C5_Witness ==
    /\ project = <<"_", "p">>
    /\ pc = "exit"
    /\ Len(output) = 1

(***************************************************************************)
(* C6.  store.apply is called at most once in a run, with partial=False,   *)
(* and only after the project name check, the import of every scanned      *)
(* file, the validation of every declared feature view's batch source      *)
(* (unless skip_source_validation) and the five registry listings, none of *)
(* which failed; after a failure of any of them it is never called, and    *)
(* no outcome line is reported after any failure.                          *)
(***************************************************************************)
C6_AllOrNothing ==
    /\ Cardinality(ApplyCalls) <= 1
    /\ \A i \in ApplyCalls :
          /\ calls[i].arg = <<"partial=False">>
          /\ ~ InvalidProjectName
          /\ \A j \in 1..(i - 1) : calls[j].ok
          /\ CalledBefore(i, "_initialize_registry")
          /\ \A k \in 1..Len(repo_files) :
                \E j \in 1..(i - 1) :
                   calls[j] = Call("import_module", py_path_to_module(repo_files[k]), TRUE)
          /\ file_i = Len(repo_files) + 1
          /\ ~ skip_source_validation =>
                /\ CalledBefore(i, "validate")
                /\ validated = DeclaredOf("FeatureView")
          /\ \A op \in ListOps : CalledBefore(i, op)
    /\ (\E j \in 1..Len(calls) : ~ calls[j].ok /\ calls[j].op # "apply")
          => ApplyCalls = {}
    /\ (\E j \in 1..Len(calls) : ~ calls[j].ok) => OutcomeLines = {}
    /\ pc \in {"raised", "exit"} => OutcomeLines = {}
    /\ OutcomeLines # {} => \E i \in ApplyCalls : calls[i].ok

\* a run with two imported modules and a validated feature view has applied
C6_Witness ==
    /\ pc = "done"
    /\ Len(repo_files) = 2
    /\ validated # {}
    /\ ~ skip_source_validation
    /\ OutcomeLines # {}

(***************************************************************************)
(* C7.  Whenever get_repo_files returns, its result is strictly ascending  *)
(* (sorted, without duplicates) and holds exactly the canonical paths of   *)
(* the .py files below the root that are neither the canonical path of a   *)
(* file an ignore pattern matches nor that of a .py file below a directory *)
(* an ignore pattern matches; no .feastignore, or patterns that match      *)
(* nothing, exclude nothing.  (Path.glob raises for a pattern that starts  *)
(* with "/" or has "**" inside a component; get_repo_files then returns    *)
(* nothing.)                                                               *)
(***************************************************************************)
ScanReturned == pc \in {"import_module", "validate"}

PyFiles(t) ==
    { p \in Paths(t) : p # <<>> /\ p[Len(p)] \in PyNames /\ IsFile(t, p) }

CanonicalPyFiles(t) == { Resolve(t, p) : p \in PyFiles(t) }

MatchedPaths(t) ==
    UNION { Glob(t, <<>>, ignore_paths[i]) : i \in 1..Len(ignore_paths) }

Excluded(t) ==
    { Resolve(t, m) : m \in { x \in MatchedPaths(t) : IsFile(t, x) } }
       \cup { Resolve(t, p) :
              p \in { q \in PyFiles(t) :
                      \E m \in MatchedPaths(t) :
                         IsDir(t, m) /\ IsPrefix(m, q) /\ m # q } }

FieldOf(c) == CHOOSE f \in Fields : ClassOf(f) = c

\* class number k of the order is the first one the value is an instance of
FirstSatisfied(order, types, k) ==
    order[k] \in types /\ \A j \in 1..(k - 1) : order[j] \notin types

FourKinds == <<"Entity", "FeatureService", "OnDemandFeatureView", "RequestFeatureView">>

FiveKinds == <<"FeatureView">> \o FourKinds

RecordedOnlyImported == \A f \in Fields : repo[f] \subseteq ImportedValues

C8_ViewCheckIndependentOfTheRest ==
    /\ RecordedOnlyImported
    /\ \A v \in ImportedValues :
          /\ v \in repo.feature_tables <=> "FeatureTable" \in v.types
          /\ v \in repo.feature_views <=> "FeatureView" \in v.types
          /\ \A k \in 1..Len(FourKinds) :
                v \in repo[FieldOf(FourKinds[k])]
                   <=> FirstSatisfied(FourKinds, v.types, k)

(***************************************************************************)
(* C8, amended.  A module attribute value is recorded in feature_tables    *)
(* iff it is a FeatureTable, independently of the rest; and among          *)
(* FeatureView, Entity, FeatureService, OnDemandFeatureView,               *)
(* RequestFeatureView it is recorded in exactly the first it is an         *)
(* instance of, or in none of those five: a FeatureView is recorded in     *)
(* feature_views only, whatever else of the four it is.                    *)
(***************************************************************************)
C8_ViewCheckHeadsTheChain ==
    /\ RecordedOnlyImported
    /\ \A v \in ImportedValues :
          /\ v \in repo.feature_tables <=> "FeatureTable" \in v.types
          /\ \A k \in 1..Len(FiveKinds) :
                v \in repo[FieldOf(FiveKinds[k])]
                   <=> FirstSatisfied(FiveKinds, v.types, k)

\* a value that is a FeatureTable, a FeatureView and an Entity was recorded
\* as a table and a view and not as an entity
C8_Witness ==
    /\ pc = "validate"
    /\ \E v \in ImportedValues :
          /\ {"FeatureTable", "FeatureView", "Entity"} \subseteq v.types
          /\ v \in repo.feature_tables
          /\ v \in repo.feature_views
          /\ v \notin repo.entities

(***************************************************************************)
(* C9.  In a run that reaches store.apply, all_to_apply is the declared    *)
(* entities, then the declared feature views and request feature views,    *)
(* then the declared feature services, on demand feature views and feature *)
(* tables: every discovered object and nothing else, persisted under the   *)
(* same name or not; all_to_delete is the delete-sets in that kind order.  *)
(***************************************************************************)
C9_ListsInKindOrder ==
    ApplyCalls # {} =>
      /\ Concatenates(all_to_apply, DeclaredOf("Entity"), DeclaredViews,
                      DeclaredOf("FeatureService"),
                      DeclaredOf("OnDemandFeatureView"),
                      DeclaredOf("FeatureTable"))
      /\ Range(all_to_apply) = { v \in ImportedValues : v.types # {} }
      /\ IgnoredObject \notin Range(all_to_apply)
      /\ Concatenates(all_to_delete, entities_to_delete, views_to_delete,
                      services_to_delete, odfvs_to_delete, tables_to_delete)

\* an entity that is already persisted and a feature table are applied, in
\* that order, and a persisted object is deleted
C9_Witness ==
    /\ run = 1
    /\ pc = "report"
    /\ Len(all_to_apply) = 2
    /\ "Entity" \in all_to_apply[1].types
    /\ "FeatureTable" \in all_to_apply[2].types
    /\ all_to_apply[1].name \notin Names(Range(all_to_delete))
    /\ Len(all_to_delete) = 1

(***************************************************************************)
(* C10.  Once store.apply has returned, the output holds one "Deploying    *)
(* infrastructure" line per declared feature table and per declared        *)
(* feature view and one "Removing infrastructure" line per feature view    *)
(* and per feature table tagged for deletion, each under the object's      *)
(* name; entities and the other kinds get none, and no such line is        *)
(* written before store.apply has returned.                                *)
(***************************************************************************)
C10_InfrastructureNotices ==
    /\ (\E i \in 1..Len(output) : output[i].text \in InfraTexts)
          => pc = "done" /\ \E a \in ApplyCalls : calls[a].ok
    /\ \A i \in 1..Len(output) : output[i].name \in AllNames \cup {"project"}
    /\ pc = "done" =>
          \A n \in AllNames :
             /\ Count("Deploying infrastructure for", n) =
                   Named(DeclaredOf("FeatureTable"), n)
                      + Named(DeclaredOf("FeatureView"), n)
             /\ Count("Removing infrastructure for", n) =
                   Named({ v \in views_to_delete : "FeatureView" \in v.types }, n)
                      + Named(tables_to_delete, n)

\* a declared feature view x beside a declared entity x, and an undeclared
\* persisted feature table y: one line deploys x, another removes y
C10_Witness ==
    /\ pc = "done"
    /\ Names(DeclaredOf("FeatureView")) = {"x"}
    /\ Names(DeclaredOf("Entity")) = {"x"}
    /\ Names(tables_to_delete) = {"y"}
    /\ Count("Deploying infrastructure for", "x") = 1
    /\ Count("Removing infrastructure for", "y") = 1
    /\ Cardinality({ i \in 1..Len(output) : output[i].text \in InfraTexts }) = 2
====
